---- MODULE Spec2Model ----
(***************************************************************************)
(* The timer subsystem of pintos/devices/timer.c: the tick counter, the    *)
(* sleep list shared between thread context and the timer interrupt, the   *)
(* real-time sleep conversions and the busy-wait calibration.              *)
(*                                                                         *)
(* One CPU.  A thread step is one stretch of timer.c that runs without a   *)
(* possible timer interrupt in between: either a single read/decision made *)
(* with interrupts enabled, or a whole interrupt-masked section.  The      *)
(* interrupt handler runs with interrupts off and is one step.             *)
(***************************************************************************)
EXTENDS Integers, Sequences, FiniteSets, TLC

\* ------------------------------------------------------------- bounds
\* The tick counter is explored up to MaxTicks.
MaxTicks == 2

Threads == {1, 2, 3}
\* The arguments threads pass to timer_sleep: two no-op values, two delays.
SleepArgs == {-1, 0, 1, 2}

VARIABLES
  ticks,        \* static int64_t ticks
  sleep_list,   \* static struct list sleep_list: thread ids, front first
  wake_tick,    \* struct thread.wake_tick, per thread
  status,       \* struct thread.status: RUNNING, READY, BLOCKED
  intr_level,   \* the interrupt level each thread runs with (the CPU flag
                \* while it is the running thread)
  pc,           \* each thread's position in timer_sleep
  arg,          \* timer_sleep's parameter TICKS, per calling thread
  wake,         \* timer_sleep's local WAKE
  old_level,    \* timer_sleep's local OLD
  panicked,     \* a failed ASSERT has halted the kernel
  t0,           \* history: the tick counter when the thread called timer_sleep
  unblocked,    \* history: the threads unblocked by the handler run that was
                \* the last step, in thread_unblock order; empty after any
                \* other step
  noop_ret,     \* history: the thread whose last step was the no-op return
                \* of timer_sleep, 0 after any other step
  call_order,   \* history: threads inside timer_sleep(n > 0), in call order
  ins_order,    \* history: threads in the sleep list, in insertion order
  ins_tick,     \* history: the tick counter when the thread was inserted
                \* into the sleep list, 0 when it is not in the list
  tread,        \* the last two results of timer_ticks(), oldest first
  elapsed,      \* the last result of timer_elapsed()
  timer_freq,   \* TIMER_FREQ, fixed when the kernel is built
  rts,          \* the last real_time_sleep call: its arguments, its local
                \* TICKS, the branch it took and its busy_wait argument
  loops_per_tick, \* static unsigned loops_per_tick, as its set of 1-bits
  capacity,     \* the busy_wait iterations that fit in one tick on this
                \* CPU, as its set of 1-bits
  cal_pc,       \* timer_calibrate's position
  high_bit,     \* timer_calibrate's local HIGH_BIT, as its set of 1-bits
  test_bit,     \* timer_calibrate's local TEST_BIT, as its set of 1-bits
  tml_start,    \* too_many_loops' local START
  tml_left,     \* the iterations busy_wait has left in too_many_loops
  tml_ret,      \* the last result of too_many_loops, "none" before any
  unmasked      \* history: the functions that have read the tick counter or
                \* changed the sleep list in thread context while the CPU
                \* accepted interrupts

vars == <<ticks, sleep_list, wake_tick, status, intr_level, pc, arg, wake,
          old_level, panicked, t0, unblocked, noop_ret, call_order, ins_order,
          ins_tick, tread, elapsed, timer_freq, rts, loops_per_tick, capacity, cal_pc,
          high_bit, test_bit, tml_start, tml_left, tml_ret, unmasked>>

convVars == <<timer_freq, rts>>
calVars == <<loops_per_tick, capacity, cal_pc, high_bit, test_bit>>
probeVars == <<tml_start, tml_left, tml_ret>>
insHist == <<ins_order, ins_tick>>

\* ------------------------------------------------------------ helpers
Range(s) == {s[i] : i \in 1 .. Len(s)}
InSeq(x, s) == x \in Range(s)
Pos(x, s) == CHOOSE i \in 1 .. Len(s) : s[i] = x
Before(a, b, s) == InSeq(a, s) /\ InSeq(b, s) /\ Pos(a, s) < Pos(b, s)
Remove(s, S) == SelectSeq(s, LAMBDA x : x \notin S)

Running == {t \in Threads : status[t] = "RUNNING"}
Ready == {t \in Threads : status[t] = "READY"}
\* intr_get_level () of the CPU: the running thread's level; the idle
\* thread waits with interrupts enabled.
CpuIntrOn == \A t \in Running : intr_level[t] = "ON"

\* A slip in the no-op test: 0 is taken for a delay.
SleepIsNoopStrict(n) == n < 0

\* --------------------------------------------------------- pure parts
\* timer_sleep: if (ticks <= 0) return;
SleepIsNoop(n) == n <= 0

\* A slip in the deadline: one tick short.
WakeDeadlineShort(now, n) == now + n - 1

\* timer_sleep: int64_t wake = timer_ticks() + ticks;
WakeDeadline(now, n) == now + n

\* Slips in the comparison: the reversed order, ties counted as less, and
\* no order at all (every entry goes to the back of the list).
WakeLessReversed(a, b) == a > b
WakeLessOrEqual(a, b) == a <= b
WakeLessNever(a, b) == FALSE

\* wake_less: ta->wake_tick < tb->wake_tick
WakeLess(a, b) == a < b

\* A slip in the increment: two per interrupt.
TickIncTwice(t) == t + 2

\* timer_interrupt: ticks++
TickInc(t) == t + 1

\* Slips in the due test: the deadline tick itself not due, and only the
\* deadline tick itself due.
IsDueStrict(w, now) == w < now
IsDueExact(w, now) == w = now
\* Another slip: due one tick early.
IsDueEarly(w, now) == w <= now + 1

\* timer_interrupt: if (t->wake_tick <= now)
IsDue(w, now) == w <= now

\* list_insert_ordered (&sleep_list, &t->sleep_elem, wake_less, NULL):
\* the element goes before the first entry e with wake_less (elem, e).
RECURSIVE InsertOrdered(_, _, _)
InsertOrdered(list, t, wt) ==
  IF list = <<>> THEN <<t>>
  ELSE IF WakeLess(wt[t], wt[Head(list)]) THEN <<t>> \o list
  ELSE <<Head(list)>> \o InsertOrdered(Tail(list), t, wt)

\* timer_interrupt: while (!list_empty (&sleep_list))
LoopCond(list) == list # <<>>

\* timer_interrupt's loop: while the list is not empty, take its front
\* (list_front asserts a non-empty list: FAULT); pop and unblock it if it is
\* due, else stop.
RECURSIVE DrainDue(_, _, _, _)
DrainDue(list, wt, now, woken) ==
  IF ~LoopCond(list) THEN [woken |-> woken, rest |-> list, fault |-> FALSE]
  ELSE IF list = <<>> THEN [woken |-> woken, rest |-> list, fault |-> TRUE]
  ELSE IF IsDue(wt[Head(list)], now)
       THEN DrainDue(Tail(list), wt, now, Append(woken, Head(list)))
       ELSE [woken |-> woken, rest |-> list, fault |-> FALSE]

\* schedule (): the statuses ST with the CPU given to thread NEXT.
SwitchTo(st, next) ==
  [t \in Threads |-> IF t = next THEN "RUNNING" ELSE st[t]]

\* ------------------------------------------------- 64-bit arithmetic
\* A natural number too wide for the checker's integers is kept as its
\* digits in base 2^15, lowest digit first, without a leading zero digit:
\* 0 is the empty sequence.
LimbBase == 2 ^ 15

RECURSIVE NormW(_)
NormW(x) ==
  IF x = <<>> THEN <<>>
  ELSE IF x[Len(x)] = 0 THEN NormW(SubSeq(x, 1, Len(x) - 1))
  ELSE x

RECURSIVE NatW(_)
NatW(n) == IF n = 0 THEN <<>> ELSE <<n % LimbBase>> \o NatW(n \div LimbBase)

\* The value of a wide natural that is below 2^31.
RECURSIVE IntW(_)
IntW(x) == IF x = <<>> THEN 0 ELSE Head(x) + LimbBase * IntW(Tail(x))

RECURSIVE AddCarryW(_, _, _)
AddCarryW(x, y, c) ==
  IF x = <<>> /\ y = <<>> THEN NatW(c)
  ELSE LET a == IF x = <<>> THEN 0 ELSE Head(x)
           b == IF y = <<>> THEN 0 ELSE Head(y)
           v == a + b + c
       IN  <<v % LimbBase>> \o
           AddCarryW(IF x = <<>> THEN x ELSE Tail(x),
                     IF y = <<>> THEN y ELSE Tail(y), v \div LimbBase)

AddW(x, y) == NormW(AddCarryW(x, y, 0))

\* x - y for x >= y.
RECURSIVE SubBorrowW(_, _, _)
SubBorrowW(x, y, c) ==
  IF x = <<>> THEN <<>>
  ELSE LET b == IF y = <<>> THEN 0 ELSE Head(y)
           v == Head(x) - b - c
       IN  <<v % LimbBase>> \o
           SubBorrowW(Tail(x), IF y = <<>> THEN y ELSE Tail(y),
                      IF v < 0 THEN 1 ELSE 0)

SubW(x, y) == NormW(SubBorrowW(x, y, 0))

\* x * k + c for one digit k.
RECURSIVE MulLimbW(_, _, _)
MulLimbW(x, k, c) ==
  IF x = <<>> THEN NatW(c)
  ELSE LET v == Head(x) * k + c
       IN  <<v % LimbBase>> \o MulLimbW(Tail(x), k, v \div LimbBase)

RECURSIVE MulW(_, _)
MulW(x, y) ==
  IF y = <<>> THEN <<>>
  ELSE AddW(NormW(MulLimbW(x, Head(y), 0)), NormW(<<0>> \o MulW(x, Tail(y))))

\* -1, 0 or 1 as a is below, equal to or above b.
RECURSIVE CmpW(_, _)
CmpW(a, b) ==
  IF Len(a) # Len(b) THEN (IF Len(a) < Len(b) THEN -1 ELSE 1)
  ELSE IF a = <<>> THEN 0
  ELSE LET n == Len(a)
       IN  IF a[n] # b[n] THEN (IF a[n] < b[n] THEN -1 ELSE 1)
           ELSE CmpW(SubSeq(a, 1, n - 1), SubSeq(b, 1, n - 1))

\* Long division by a divisor d <= 2^30, one bit at a time.
RECURSIVE DivLimb(_, _, _, _, _)
DivLimb(limb, d, r, w, q) ==
  IF w = 0 THEN [q |-> q, r |-> r]
  ELSE LET v == 2 * r + ((limb \div w) % 2)
       IN  IF v >= d THEN DivLimb(limb, d, v - d, w \div 2, 2 * q + 1)
           ELSE DivLimb(limb, d, v, w \div 2, 2 * q)

RECURSIVE DivRemW(_, _)
DivRemW(x, d) ==
  IF x = <<>> THEN [q |-> <<>>, r |-> 0]
  ELSE LET hi == DivRemW(Tail(x), d)
           lo == DivLimb(Head(x), d, hi.r, LimbBase \div 2, 0)
       IN  [q |-> <<lo.q>> \o hi.q, r |-> lo.r]

DivW(x, d) == NormW(DivRemW(x, d).q)

\* 2^n.
LimbBits == CHOOSE n \in 1 .. 30 : 2 ^ n = LimbBase
Pow2W(n) == [i \in 1 .. (n \div LimbBits) |-> 0] \o <<2 ^ (n % LimbBits)>>

\* unsigned is 32 bits wide; an unsigned is kept as its set of 1-bits.
UBits == 32
UBitSet == 0 .. (UBits - 1)

\* The value of a set of bits below 2^15.
RECURSIVE BitsValue(_)
BitsValue(x) ==
  IF x = {} THEN 0
  ELSE LET i == CHOOSE k \in x : TRUE IN 2 ^ i + BitsValue(x \ {i})

\* The value of an unsigned given as its set of 1-bits, digit by digit.
BitsToW(x) ==
  NormW([j \in 1 .. (UBits \div LimbBits + 1) |->
           BitsValue({i - LimbBits * (j - 1) : i \in x}
                       \cap (0 .. (LimbBits - 1)))])

\* An int64_t is kept as a sign and a magnitude; 0 is not negative.
Signed(neg, mag) == [neg |-> neg /\ mag # <<>>, mag |-> mag]
Int64(n) == Signed(n < 0, NatW(IF n < 0 THEN 0 - n ELSE n))
IsPositive(v) == ~v.neg /\ v.mag # <<>>

\* The conversion of an unsigned operand to int64_t (every unsigned value is
\* an int64_t value).
UnsignedToInt64(x) == Signed(FALSE, BitsToW(x))

\* The int64_t values are -2^63 .. 2^63 - 1.
Int64Limit == Pow2W(63)

\* A slip in the type: the arithmetic done in 32 bits.
FitsInt32(v) ==
  \/ CmpW(v.mag, Pow2W(31)) < 0
  \/ v.neg /\ v.mag = Pow2W(31)

FitsInt64(v) ==
  \/ CmpW(v.mag, Int64Limit) < 0
  \/ v.neg /\ v.mag = Int64Limit

\* The value v reduced to 64 bits in two's complement.
Wrap64(v) ==
  LET two64 == Pow2W(64)
      high == DivW(DivW(DivW(v.mag, 2 ^ 22), 2 ^ 21), 2 ^ 21)
      low == SubW(v.mag, MulW(high, two64))
      bits == IF v.neg /\ low # <<>> THEN SubW(two64, low) ELSE low
  IN  IF CmpW(bits, Int64Limit) < 0 THEN Signed(FALSE, bits)
      ELSE Signed(TRUE, SubW(two64, bits))

\* a * b on two int64_t.  A product that is no int64_t value is signed
\* overflow, which the C standard leaves undefined: the build either keeps
\* the low 64 bits of the product or traps.
Int64Mul(a, b) ==
  LET exact == Signed(a.neg # b.neg, MulW(a.mag, b.mag))
  IN  IF FitsInt64(exact)
      THEN {[val |-> exact, trap |-> FALSE, ovf |-> FALSE]}
      ELSE {[val |-> Wrap64(exact), trap |-> FALSE, ovf |-> TRUE],
            [val |-> exact, trap |-> TRUE, ovf |-> TRUE]}

\* a / d on int64_t, d > 0: C's division truncates toward zero.
Int64Div(a, d) == Signed(a.neg, DivW(a.mag, d))

\* ------------------------------------------------ real-time conversion
\* The values of TIMER_FREQ the #if guards accept (19 .. 1000): both ends
\* and the default.
TimerFreqs == {19, 100, 1000}

\* C's integer division, which truncates toward zero.
TruncDiv(a, b) == IF a >= 0 THEN a \div b ELSE -((-a) \div b)

\* A slip in the conversion: the division done first.
RtsTicksDivFirst(num, denom, freq) ==
  {[ticks |-> p.val, trap |-> p.trap] :
     p \in Int64Mul(Int64Div(num, denom), Int64(freq))}

\* real_time_sleep: int64_t ticks = num * TIMER_FREQ / denom;
\* the outcomes of the statement.
RtsTicks(num, denom, freq) ==
  {[ticks |-> Int64Div(p.val, denom), trap |-> p.trap] :
     p \in Int64Mul(num, Int64(freq))}

\* A slip in the branch: a single tick is left to the busy-wait.
RtsSleepsFromTwo(tk) == IsPositive(tk) /\ tk.mag # <<1>>

\* real_time_sleep: if (ticks > 0) timer_sleep, else busy_wait
RtsSleeps(tk) == IsPositive(tk)

\* The denominator of the sub-tick path is a multiple of 1000.
DenomAssertHolds(denom) == denom % 1000 = 0

\* real_time_sleep:
\* busy_wait (loops_per_tick * num / 1000 * TIMER_FREQ / (denom / 1000))
\* the outcomes of the expression: its value, whether it trapped and whether
\* one of its products overflowed.
BusyLoops(lpt, num, denom, freq) ==
  UNION {{[loops |-> Int64Div(q.val, TruncDiv(denom, 1000)),
           trap |-> p.trap \/ q.trap,
           ovf |-> p.ovf \/ q.ovf] :
            q \in Int64Mul(Int64Div(p.val, 1000), Int64(freq))} :
           p \in Int64Mul(lpt, num)}

\* busy_wait (loops): while (loops-- > 0) barrier ();  the iterations it runs.
BusyWait(loops) == IF IsPositive(loops) THEN loops.mag ELSE <<>>

\* No real_time_sleep call yet.
NoRts ==
  [num |-> Int64(0), denom |-> 0, ticks |-> Int64(0), path |-> "none",
   loops |-> Int64(0), iters |-> <<>>, ovf |-> FALSE]

\* ---------------------------------------------------------- calibration
\* x << 1 on an unsigned: the bit shifted out of the top is lost.
Shl1(x) == {i + 1 : i \in x} \cap UBitSet

\* x >> n on an unsigned.
Shr(x, n) == {i - n : i \in x} \cap UBitSet

\* a > b for two naturals given as their sets of 1-bits: the highest bit in
\* which they differ is a's.
BitsGt(a, b) == \E i \in a \ b : \A j \in b \ a : j < i

\* too_many_loops (loops): LOOPS iterations of busy_wait run past the end of
\* the tick they start in, which is so exactly when LOOPS exceeds the CPU's
\* capacity.
TooManyLoops(loops, cap) == BitsGt(loops, cap)

\* timer_calibrate: if (!too_many_loops (high_bit | test_bit))
RefineProbe(high, test, lpt) == high \cup test

\* The capacities explored: a leading bit, and any of the bits 1, 2, 10 and
\* 11 places below it.
CapHighBits == {8, 10, 11, 14, 30, 31, 32}
CapLowOffsets == {1, 2, 10, 11}
Capacities ==
  {({k} \cup {k - o : o \in low}) \cap (0 .. UBits) :
     k \in CapHighBits, low \in SUBSET CapLowOffsets}

\* ---------------------------------------------------------------- Init
InitTimer ==
  /\ ticks = 0
  /\ sleep_list = <<>>
  /\ wake_tick = [t \in Threads |-> 0]
  /\ status = [t \in Threads |-> IF t = 1 THEN "RUNNING" ELSE "READY"]
  /\ intr_level = [t \in Threads |-> "ON"]
  /\ pc = [t \in Threads |-> "idle"]
  /\ arg = [t \in Threads |-> 0]
  /\ wake = [t \in Threads |-> 0]
  /\ old_level = [t \in Threads |-> "ON"]
  /\ panicked = FALSE
  /\ t0 = [t \in Threads |-> 0]
  /\ unblocked = <<>>
  /\ noop_ret = 0
  /\ call_order = <<>>
  /\ ins_order = <<>>
  /\ ins_tick = [t \in Threads |-> 0]
  /\ tread = <<0, 0>>
  /\ elapsed = 0
  /\ rts = NoRts
  /\ tml_start = 0
  /\ tml_left = 0
  /\ tml_ret = "none"
  /\ unmasked = {}

\* After timer_init, before timer_calibrate: loops_per_tick is a zeroed
\* static.  The kernel is built with TIMER_FREQ = 100.
InitCal ==
  /\ loops_per_tick = {}
  /\ cal_pc = "start"
  /\ high_bit = {}
  /\ test_bit = {}

Init ==
  /\ InitTimer
  /\ timer_freq = 100
  /\ InitCal
  /\ capacity = {10, 9}

\* ------------------------------------------------------------- actions
\* A thread executes only while it has the CPU and the kernel has not
\* panicked.
CanStep(t) == ~panicked /\ status[t] = "RUNNING"

\* The step is no handler run and no no-op return.
Quiet == unblocked' = <<>> /\ noop_ret' = 0

\* intr_disable () in a caller of the timer API.
IntrDisable(t) ==
  /\ CanStep(t) /\ pc[t] = "idle" /\ intr_level[t] = "ON"
  /\ intr_level' = [intr_level EXCEPT ![t] = "OFF"]
  /\ Quiet
  /\ UNCHANGED <<convVars, calVars, probeVars, unmasked>>
  /\ UNCHANGED <<ticks, sleep_list, wake_tick, status, pc, arg, wake,
                 old_level, panicked, t0, call_order, insHist, tread,
                 elapsed>>

\* intr_enable () / intr_set_level (INTR_ON) in a caller of the timer API.
IntrEnable(t) ==
  /\ CanStep(t) /\ pc[t] = "idle" /\ intr_level[t] = "OFF"
  /\ intr_level' = [intr_level EXCEPT ![t] = "ON"]
  /\ Quiet
  /\ UNCHANGED <<convVars, calVars, probeVars, unmasked>>
  /\ UNCHANGED <<ticks, sleep_list, wake_tick, status, pc, arg, wake,
                 old_level, panicked, t0, call_order, insHist, tread,
                 elapsed>>

\* intr_disable (): the level the CPU runs at after the call.
MaskedLevel(level) == "OFF"

\* Function FN reads the tick counter or changes the sleep list in thread
\* context while the CPU runs at LEVEL.
Accessed(fn, level) ==
  IF level = "ON" THEN unmasked \cup {fn} ELSE unmasked

\* timer_ticks (): old_level = intr_disable (); t = ticks;
\* intr_set_level (old_level); return t.  The read is one masked step and
\* the level is restored.
TimerTicksValue == ticks

TimerTicks(t) ==
  /\ CanStep(t) /\ pc[t] = "idle"
  /\ tread' = <<tread[2], TimerTicksValue>>
  /\ unmasked' = Accessed("timer_ticks", MaskedLevel(intr_level[t]))
  /\ Quiet
  /\ UNCHANGED <<convVars, calVars, probeVars>>
  /\ UNCHANGED <<ticks, sleep_list, wake_tick, status, intr_level, pc, arg,
                 wake, old_level, panicked, t0, call_order, insHist,
                 elapsed>>

\* timer_elapsed (then): timer_ticks () - then.
ElapsedSince(now, then) == now - then

\* A thread calls timer_elapsed with a value timer_ticks returned before.
TimerElapsed(t) ==
  /\ CanStep(t) /\ pc[t] = "idle"
  /\ \E then \in {tread[1], tread[2]} :
       elapsed' = ElapsedSince(TimerTicksValue, then)
  /\ unmasked' = Accessed("timer_ticks", MaskedLevel(intr_level[t]))
  /\ Quiet
  /\ UNCHANGED <<convVars, calVars, probeVars>>
  /\ UNCHANGED <<ticks, sleep_list, wake_tick, status, intr_level, pc, arg,
                 wake, old_level, panicked, t0, call_order, insHist,
                 tread>>

\* A thread calls timer_sleep (n).
Call(t, n) ==
  /\ CanStep(t) /\ pc[t] = "idle"
  /\ pc' = [pc EXCEPT ![t] = "entry"]
  /\ arg' = [arg EXCEPT ![t] = n]
  /\ t0' = [t0 EXCEPT ![t] = IF n > 0 THEN ticks ELSE 0]
  /\ call_order' = IF n > 0 THEN Append(call_order, t) ELSE call_order
  /\ Quiet
  /\ UNCHANGED <<convVars, calVars, probeVars, unmasked>>
  /\ UNCHANGED <<ticks, sleep_list, wake_tick, status, intr_level, wake,
                 old_level, panicked, insHist, tread, elapsed>>

\* The assertion left out.
EntryAssertDropped(level) == TRUE

\* timer_sleep: ASSERT (intr_get_level () == INTR_ON)
EntryAssertHolds(level) == level = "ON"

\* timer_sleep, lines 124-125: the no-op return, then the assertion.
Enter(t) ==
  /\ CanStep(t) /\ pc[t] = "entry"
  /\ IF SleepIsNoop(arg[t])
     THEN /\ pc' = [pc EXCEPT ![t] = "idle"]
          /\ arg' = [arg EXCEPT ![t] = 0]
          /\ noop_ret' = t
          /\ UNCHANGED panicked
     ELSE IF EntryAssertHolds(intr_level[t])
     THEN /\ pc' = [pc EXCEPT ![t] = "read"]
          /\ noop_ret' = 0
          /\ UNCHANGED <<arg, panicked>>
     ELSE /\ pc' = [pc EXCEPT ![t] = "panic"]
          /\ panicked' = TRUE
          /\ noop_ret' = 0
          /\ UNCHANGED arg
  /\ unblocked' = <<>>
  /\ UNCHANGED <<convVars, calVars, probeVars, unmasked>>
  /\ UNCHANGED <<ticks, sleep_list, wake_tick, status, intr_level, wake,
                 old_level, t0, call_order, insHist, tread, elapsed>>

\* timer_sleep, lines 127-128: wake = timer_ticks () + ticks.
ReadTicks(t) ==
  /\ CanStep(t) /\ pc[t] = "read"
  /\ wake' = [wake EXCEPT ![t] = WakeDeadline(TimerTicksValue, arg[t])]
  /\ pc' = [pc EXCEPT ![t] = "insert"]
  /\ unmasked' = Accessed("timer_ticks", MaskedLevel(intr_level[t]))
  /\ Quiet
  /\ UNCHANGED <<convVars, calVars, probeVars>>
  /\ UNCHANGED <<ticks, sleep_list, wake_tick, status, intr_level, arg,
                 old_level, panicked, t0, call_order, insHist, tread,
                 elapsed>>

\* A slip in the blocking: the caller yields, as the busy-wait timer_sleep
\* did, and stays ready.
ThreadYield(st, t) == [st EXCEPT ![t] = "READY"]

\* thread_block (): the caller becomes BLOCKED.
ThreadBlock(st, t) == [st EXCEPT ![t] = "BLOCKED"]

\* timer_sleep, lines 130-133: old = intr_disable (); t->wake_tick = wake;
\* list_insert_ordered (...); thread_block ().  thread_block () gives the
\* CPU to a ready thread, or to the idle thread when there is none.
InsertBlock(t) ==
  /\ CanStep(t) /\ pc[t] = "insert"
  /\ old_level' = [old_level EXCEPT ![t] = intr_level[t]]
  /\ intr_level' = [intr_level EXCEPT ![t] = MaskedLevel(intr_level[t])]
  /\ wake_tick' = [wake_tick EXCEPT ![t] = wake[t]]
  /\ sleep_list' = InsertOrdered(sleep_list, t, wake_tick')
  /\ unmasked' = Accessed("timer_sleep", intr_level'[t])
  /\ ins_order' = Append(ins_order, t)
  /\ ins_tick' = [ins_tick EXCEPT ![t] = ticks]
  /\ pc' = [pc EXCEPT ![t] = "blocked"]
  /\ LET blocked == ThreadBlock(status, t)
     IN  IF Ready = {}
         THEN status' = blocked
         ELSE \E next \in Ready : status' = SwitchTo(blocked, next)
  /\ Quiet
  /\ UNCHANGED <<convVars, calVars, probeVars>>
  /\ UNCHANGED <<ticks, arg, wake, panicked, t0, call_order, tread, elapsed>>

\* timer_sleep, line 134, once the thread has the CPU again:
\* intr_set_level (old), and the call returns (its locals end).
Resume(t) ==
  /\ CanStep(t) /\ pc[t] = "resume"
  /\ intr_level' = [intr_level EXCEPT ![t] = old_level[t]]
  /\ pc' = [pc EXCEPT ![t] = "idle"]
  /\ arg' = [arg EXCEPT ![t] = 0]
  /\ wake' = [wake EXCEPT ![t] = 0]
  /\ old_level' = [old_level EXCEPT ![t] = "ON"]
  /\ t0' = [t0 EXCEPT ![t] = 0]
  /\ call_order' = Remove(call_order, {t})
  /\ Quiet
  /\ UNCHANGED <<convVars, calVars, probeVars, unmasked>>
  /\ UNCHANGED <<ticks, sleep_list, wake_tick, status, panicked, insHist,
                 tread, elapsed>>

\* timer_interrupt: ticks++; thread_tick (); the drain loop.  Each popped
\* thread is made READY by thread_unblock.  thread_tick may ask for a yield
\* on return from the interrupt, and the idle thread gives the CPU to a
\* ready thread: the running thread after the handler is the interrupted one
\* or any ready one (the idle thread goes on only when none is ready).  The handler runs only while the CPU accepts interrupts.
TimerInterrupt ==
  /\ ~panicked /\ CpuIntrOn /\ ticks < MaxTicks
  /\ LET now == TickInc(ticks)
         d == DrainDue(sleep_list, wake_tick, now, <<>>)
         W == Range(d.woken)
         st == [t \in Threads |-> IF t \in W THEN "READY" ELSE status[t]]
         ready == {t \in Threads : st[t] = "READY"}
     IN  /\ ticks' = now
         /\ sleep_list' = d.rest
         /\ unblocked' = d.woken
         /\ panicked' = d.fault
         /\ ins_order' = Remove(ins_order, W)
         /\ ins_tick' = [t \in Threads |-> IF t \in W THEN 0 ELSE ins_tick[t]]
         /\ pc' = [t \in Threads |-> IF t \in W THEN "resume" ELSE pc[t]]
         /\ \/ /\ Running # {} \/ ready = {}
               /\ status' = st
            \/ \E next \in ready :
                 status' = SwitchTo([t \in Threads |->
                                       IF st[t] = "RUNNING" THEN "READY"
                                       ELSE st[t]], next)
  /\ noop_ret' = 0
  /\ UNCHANGED <<convVars, calVars, probeVars, unmasked>>
  /\ UNCHANGED <<wake_tick, intr_level, arg, wake, old_level, t0,
                 call_order, tread, elapsed>>


\* real_time_sleep (num, denom), lines 228-242, up to its call of
\* timer_sleep (the thread stands at timer_sleep's entry) or through its
\* busy_wait (the thread is back in its caller).
RealTimeSleep(t, num, denom) ==
  /\ CanStep(t) /\ pc[t] = "idle"
  /\ \E c \in RtsTicks(num, denom, timer_freq) :
       LET call == [NoRts EXCEPT !.num = num, !.denom = denom,
                                 !.ticks = c.ticks]
           fatal(why) ==
             /\ pc' = [pc EXCEPT ![t] = "panic"]
             /\ panicked' = TRUE
             /\ rts' = [call EXCEPT !.path = why]
             /\ UNCHANGED <<arg, t0, call_order>>
       IN  IF c.trap THEN fatal("trap")
           ELSE IF ~EntryAssertHolds(intr_level[t]) THEN fatal("assert_intr")
           ELSE IF RtsSleeps(c.ticks)
           THEN /\ pc' = [pc EXCEPT ![t] = "entry"]
                /\ arg' = [arg EXCEPT ![t] = IntW(c.ticks.mag)]
                /\ t0' = [t0 EXCEPT ![t] = ticks]
                /\ call_order' = Append(call_order, t)
                /\ rts' = [call EXCEPT !.path = "sleep"]
                /\ UNCHANGED panicked
           ELSE IF ~DenomAssertHolds(denom) THEN fatal("assert_denom")
           ELSE \E b \in BusyLoops(UnsignedToInt64(loops_per_tick), num,
                                   denom, timer_freq) :
                  IF b.trap THEN fatal("trap")
                  ELSE /\ rts' = [call EXCEPT !.path = "busy",
                                              !.loops = b.loops,
                                              !.iters = BusyWait(b.loops),
                                              !.ovf = b.ovf]
                       /\ UNCHANGED <<pc, arg, t0, call_order, panicked>>
  /\ Quiet
  /\ UNCHANGED <<timer_freq, calVars, probeVars, unmasked>>
  /\ UNCHANGED <<ticks, sleep_list, wake_tick, status, intr_level, wake,
                 old_level, insHist, tread, elapsed>>

\* timer_msleep, timer_usleep, timer_nsleep
TimerMsleep(t, ms) == RealTimeSleep(t, ms, 1000)
TimerUsleep(t, us) == RealTimeSleep(t, us, 1000 * 1000)
TimerNsleep(t, ns) == RealTimeSleep(t, ns, 1000 * 1000 * 1000)

\* The arguments of the too_many_loops calls that are followed step by step.
ProbeLoops == 0 .. 2

\* too_many_loops reads the tick counter in place, at the level its caller
\* runs at.
ProbeLevel(level) == level

\* too_many_loops (loops), line 193: int64_t start = ticks.  Its only caller
\* is timer_calibrate, past the assertion of line 73.
TmlStart(t, loops) ==
  /\ CanStep(t) /\ pc[t] = "idle" /\ EntryAssertHolds(intr_level[t])
  /\ pc' = [pc EXCEPT ![t] = "tml_wait"]
  /\ tml_start' = ticks
  /\ tml_left' = loops
  /\ tml_ret' = "none"
  /\ unmasked' = Accessed("too_many_loops", ProbeLevel(intr_level[t]))
  /\ Quiet
  /\ UNCHANGED <<convVars, calVars>>
  /\ UNCHANGED <<ticks, sleep_list, wake_tick, status, intr_level, arg, wake,
                 old_level, panicked, t0, call_order, insHist, tread,
                 elapsed>>

\* too_many_loops, lines 194-195: while (ticks == start) barrier ();
\* one test of the loop.
TmlWait(t) ==
  /\ CanStep(t) /\ pc[t] = "tml_wait"
  /\ pc' = [pc EXCEPT ![t] = IF ticks = tml_start THEN "tml_wait"
                              ELSE "tml_mark"]
  /\ unmasked' = Accessed("too_many_loops", ProbeLevel(intr_level[t]))
  /\ Quiet
  /\ UNCHANGED <<convVars, calVars, probeVars>>
  /\ UNCHANGED <<ticks, sleep_list, wake_tick, status, intr_level, arg, wake,
                 old_level, panicked, t0, call_order, insHist, tread,
                 elapsed>>

\* too_many_loops, line 198: start = ticks.
TmlMark(t) ==
  /\ CanStep(t) /\ pc[t] = "tml_mark"
  /\ pc' = [pc EXCEPT ![t] = "tml_busy"]
  /\ tml_start' = ticks
  /\ unmasked' = Accessed("too_many_loops", ProbeLevel(intr_level[t]))
  /\ Quiet
  /\ UNCHANGED <<convVars, calVars, tml_left, tml_ret>>
  /\ UNCHANGED <<ticks, sleep_list, wake_tick, status, intr_level, arg, wake,
                 old_level, panicked, t0, call_order, insHist, tread,
                 elapsed>>

\* too_many_loops, line 199: busy_wait (loops); one test of
\* while (loops-- > 0).
TmlBusy(t) ==
  /\ CanStep(t) /\ pc[t] = "tml_busy"
  /\ IF tml_left > 0
     THEN /\ tml_left' = tml_left - 1
          /\ UNCHANGED pc
     ELSE /\ pc' = [pc EXCEPT ![t] = "tml_check"]
          /\ UNCHANGED tml_left
  /\ Quiet
  /\ UNCHANGED <<convVars, calVars, tml_start, tml_ret, unmasked>>
  /\ UNCHANGED <<ticks, sleep_list, wake_tick, status, intr_level, arg, wake,
                 old_level, panicked, t0, call_order, insHist, tread,
                 elapsed>>

\* too_many_loops, lines 202-203: return start != ticks.
TmlCheck(t) ==
  /\ CanStep(t) /\ pc[t] = "tml_check"
  /\ pc' = [pc EXCEPT ![t] = "idle"]
  /\ tml_ret' = (tml_start # ticks)
  /\ tml_start' = 0
  /\ unmasked' = Accessed("too_many_loops", ProbeLevel(intr_level[t]))
  /\ Quiet
  /\ UNCHANGED <<convVars, calVars, tml_left>>
  /\ UNCHANGED <<ticks, sleep_list, wake_tick, status, intr_level, arg, wake,
                 old_level, panicked, t0, call_order, insHist, tread,
                 elapsed>>

\* timer_calibrate, lines 73-78: the assertion (the boot thread calibrates
\* with interrupts on), then loops_per_tick = 1u << 10.
CalStart ==
  /\ cal_pc = "start"
  /\ loops_per_tick' = {10}
  /\ cal_pc' = "double"
  /\ UNCHANGED <<capacity, high_bit, test_bit>>

\* The assertion left out.
NonZeroAssertDropped(lpt) == TRUE

\* timer_calibrate: ASSERT (loops_per_tick != 0)
NonZeroAssertHolds(lpt) == lpt # {}

\* timer_calibrate, lines 79-86: one test of the doubling loop.  A passing
\* test doubles loops_per_tick and asserts it is not 0; a failing test ends
\* the loop and sets high_bit and the first test_bit.
CalDouble ==
  /\ cal_pc = "double"
  /\ IF ~TooManyLoops(Shl1(loops_per_tick), capacity)
     THEN /\ loops_per_tick' = Shl1(loops_per_tick)
          /\ cal_pc' = IF NonZeroAssertHolds(loops_per_tick')
                       THEN "double" ELSE "panic"
          /\ UNCHANGED <<high_bit, test_bit>>
     ELSE /\ high_bit' = loops_per_tick
          /\ test_bit' = Shr(loops_per_tick, 1)
          /\ cal_pc' = "refine"
          /\ UNCHANGED loops_per_tick
  /\ UNCHANGED capacity

\* timer_calibrate, lines 86-88: one turn of the refinement loop, or its end.
CalRefine ==
  /\ cal_pc = "refine"
  /\ IF test_bit # Shr(high_bit, 10)
     THEN /\ loops_per_tick' =
               IF ~TooManyLoops(RefineProbe(high_bit, test_bit,
                                            loops_per_tick), capacity)
               THEN loops_per_tick \cup test_bit
               ELSE loops_per_tick
          /\ test_bit' = Shr(test_bit, 1)
          /\ UNCHANGED cal_pc
     ELSE /\ cal_pc' = "done"
          /\ UNCHANGED <<loops_per_tick, test_bit>>
  /\ UNCHANGED <<capacity, high_bit>>

\* The boot thread probes with too_many_loops while another thread reads the
\* clock and sleeps, and the timer interrupts.
NextProbe ==
  \/ \E n \in ProbeLoops : TmlStart(1, n)
  \/ TmlWait(1)
  \/ TmlMark(1)
  \/ TmlBusy(1)
  \/ TmlCheck(1)
  \/ TimerTicks(2)
  \/ TimerElapsed(2)
  \/ \E n \in SleepArgs : Call(2, n)
  \/ Enter(2)
  \/ ReadTicks(2)
  \/ InsertBlock(2)
  \/ Resume(2)
  \/ TimerInterrupt

ProbeSpec == Init /\ [][NextProbe]_vars

timerVars == <<ticks, sleep_list, wake_tick, status, intr_level, pc, arg,
               wake, old_level, panicked, t0, unblocked, noop_ret,
               call_order, ins_order, ins_tick, tread, elapsed>>

Next ==
  \/ \E t \in Threads : IntrDisable(t)
  \/ \E t \in Threads : IntrEnable(t)
  \/ \E t \in Threads, n \in SleepArgs : Call(t, n)
  \/ \E t \in Threads : Enter(t)
  \/ \E t \in Threads : ReadTicks(t)
  \/ \E t \in Threads : InsertBlock(t)
  \/ \E t \in Threads : Resume(t)
  \/ TimerInterrupt

Spec == Init /\ [][Next]_vars

\* The tick counter with its readers: timer_ticks and timer_elapsed called
\* by any thread, next to one thread that sleeps, and the interrupt.
NextClock ==
  \/ \E t \in Threads : TimerTicks(t)
  \/ \E t \in Threads : TimerElapsed(t)
  \/ IntrDisable(1)
  \/ IntrEnable(1)
  \/ \E n \in SleepArgs : Call(1, n)
  \/ Enter(1)
  \/ ReadTicks(1)
  \/ InsertBlock(1)
  \/ Resume(1)
  \/ TimerInterrupt

ClockSpec == Init /\ [][NextClock]_vars

\* The durations passed to the real-time sleeps: zero, lengths below, at
\* and above one tick for every TIMER_FREQ (52631578 ns is the longest
\* sub-tick delay of all, at 19 Hz), and negative lengths down to -10^10.
Durations ==
  {Int64(n) : n \in {0, 1, 9, 10, 15, 52, 53, 1000, 10000, 1000000,
                     52631578, -1, -1000}}
    \cup {Signed(TRUE, MulW(NatW(100000), NatW(100000)))}

\* The real-time sleeps of one thread, with timer_sleep behind them and the
\* interrupt, for every accepted TIMER_FREQ and a calibrated loops_per_tick:
\* the smallest result of timer_calibrate, two middle ones, its largest, and
\* the largest unsigned value, which bounds every other.
InitConv ==
  /\ InitTimer
  /\ timer_freq \in TimerFreqs
  /\ loops_per_tick \in {{10}, {10, 9, 8}, {30}, 22 .. 31, UBitSet}
  /\ cal_pc = "done"
  /\ high_bit = {10}
  /\ test_bit = {0}
  /\ capacity = loops_per_tick

NextConv ==
  \/ IntrDisable(1)
  \/ IntrEnable(1)
  \/ \E d \in Durations : TimerMsleep(1, d)
  \/ \E d \in Durations : TimerUsleep(1, d)
  \/ \E d \in Durations : TimerNsleep(1, d)
  \/ Enter(1)
  \/ ReadTicks(1)
  \/ InsertBlock(1)
  \/ Resume(1)
  \/ TimerInterrupt

ConvSpec == InitConv /\ [][NextConv]_vars

\* timer_calibrate on a CPU of every explored capacity.
InitCalib ==
  /\ InitTimer
  /\ timer_freq = 100
  /\ InitCal
  /\ capacity \in Capacities

NextCal ==
  \/ CalStart /\ UNCHANGED <<timerVars, convVars, probeVars, unmasked>>
  \/ CalDouble /\ UNCHANGED <<timerVars, convVars, probeVars, unmasked>>
  \/ CalRefine /\ UNCHANGED <<timerVars, convVars, probeVars, unmasked>>

CalSpec == InitCalib /\ [][NextCal]_vars

\* Threads that leave interrupts enabled around their timer_sleep calls:
\* thread 1 sleeps one or two ticks, thread 2 one tick, thread 3 two ticks.
NextLive ==
  \/ \E n \in {1, 2} : Call(1, n)
  \/ Call(2, 1)
  \/ Call(3, 2)
  \/ \E t \in Threads : Enter(t)
  \/ \E t \in Threads : ReadTicks(t)
  \/ \E t \in Threads : InsertBlock(t)
  \/ \E t \in Threads : Resume(t)
  \/ TimerInterrupt

\* The timer chip raises its interrupt every tick and the CPU takes a
\* pending interrupt as soon as interrupts are enabled (strong fairness of
\* the handler); the thread that has the CPU executes its next instruction,
\* so a thread that resumes inside timer_sleep restores the interrupt level.
LiveSpec ==
  /\ Init /\ [][NextLive]_vars
  /\ SF_vars(TimerInterrupt)
  /\ \A t \in Threads : WF_vars(Resume(t))

TypeOK ==
  /\ ticks \in 0 .. MaxTicks
  /\ Cardinality(Running) <= 1
  /\ Range(sleep_list) = {t \in Threads : pc[t] = "blocked"}
  /\ Range(ins_order) = Range(sleep_list)
\* --------------------------------------------------------------- claims
InList(t) == InSeq(t, sleep_list)

C2_AsStated ==
  \A a, b \in Threads :
    (pc[a] = "blocked" /\ pc[b] = "resume") => ~(wake[a] < wake[b])

\* C2, amended. Deadline ordering: of two threads that are in the sleep list
\* at the same time with wake_tick d1 < d2, the one with d2 leaves the list
\* only in a handler run that also unblocks the one with d1, and unblocks it
\* first.
C2_DeadlineOrder ==
  [][\A a, b \in Threads :
       (InList(a) /\ InList(b) /\ wake_tick[a] < wake_tick[b]
          /\ ~InSeq(b, sleep_list'))
         => Before(a, b, unblocked')]_vars

\* C2 witness: one handler run has unblocked two threads with different
\* deadlines.
C2_Witness ==
  \E a, b \in Threads :
    Before(a, b, unblocked) /\ wake_tick[a] < wake_tick[b]

\* C3 as stated: of two threads that sleep with the same deadline, the one
\* that called timer_sleep later is never unblocked before the earlier
\* caller.
C3_AsStated ==
  \A a, b \in Threads :
    (Before(a, b, call_order) /\ wake[a] = wake[b]
       /\ pc[a] \in {"blocked", "resume"} /\ pc[b] = "resume")
      => /\ pc[a] = "resume"
         /\ ~Before(b, a, unblocked)

\* C3, amended. FIFO tie-break: of two threads in the sleep list with the
\* same wake_tick, the one inserted later leaves the list only in a handler
\* run that also unblocks the one inserted earlier, and unblocks it first.
C3_FifoByInsertion ==
  [][\A a, b \in Threads :
       (Before(a, b, ins_order) /\ wake_tick[a] = wake_tick[b]
          /\ ~InSeq(b, sleep_list'))
         => Before(a, b, unblocked')]_vars

\* C3 witness: one handler run has unblocked two threads with the same
\* deadline, the later caller first.
C3_Witness ==
  \E a, b \in Threads :
    /\ Before(a, b, unblocked) /\ wake_tick[a] = wake_tick[b]
    /\ Before(b, a, call_order)

\* C4. No-op boundary: the step that takes timer_sleep(n), n <= 0, from its
\* entry returns to the caller and changes neither the sleep list, nor any
\* wake_tick, thread status or interrupt level, and does not panic, whatever
\* the interrupt level.
C4_NoopBoundary ==
  [][\A t \in Threads :
       (pc[t] = "entry" /\ arg[t] <= 0 /\ pc'[t] # "entry")
         => /\ pc'[t] = "idle"
            /\ UNCHANGED <<sleep_list, wake_tick, status, intr_level,
                           panicked, ticks>>]_vars

\* C4 witness: timer_sleep(n <= 0) has just returned to a caller that runs
\* with interrupts disabled.
C4_Witness ==
  \E t \in Threads :
    noop_ret = t /\ pc[t] = "idle" /\ intr_level[t] = "OFF" /\ ~panicked

\* C6. Drain correctness: a handler run that raises the counter to now
\* unblocks exactly the entries with wake_tick <= now, in list order from
\* the front, leaves the others queued in their order, leaves no entry with
\* wake_tick <= ticks, and trips no list assertion.
C6_DrainCorrect ==
  [][ticks' # ticks =>
       /\ unblocked' = SelectSeq(sleep_list, LAMBDA t : wake_tick[t] <= ticks')
       /\ sleep_list' = SelectSeq(sleep_list, LAMBDA t : wake_tick[t] > ticks')
       /\ unblocked' \o sleep_list' = sleep_list
       /\ \A t \in Range(sleep_list') : wake_tick'[t] > ticks'
       /\ \A t \in Range(unblocked') :
            pc'[t] = "resume" /\ status'[t] # "BLOCKED"
       /\ ~panicked']_vars

\* C6 witness: a handler run has unblocked two entries with the same
\* deadline and left a third, later one queued.
C6_Witness ==
  /\ Len(unblocked) = 2 /\ Len(sleep_list) = 1
  /\ wake_tick[unblocked[1]] = wake_tick[unblocked[2]]
  /\ wake_tick[sleep_list[1]] > ticks

\* C9. Sleep precondition: the step that takes timer_sleep(n), n > 0, from
\* its entry with interrupts disabled is the fatal assertion: the kernel
\* panics with the tick counter unread and wake_tick, the sleep list and the
\* thread statuses untouched; the caller neither blocks nor returns.
C9_SleepPrecondition ==
  /\ [][\A t \in Threads :
          (pc[t] = "entry" /\ arg[t] > 0 /\ intr_level[t] = "OFF"
             /\ pc'[t] # "entry")
            => /\ pc'[t] = "panic" /\ panicked'
               /\ UNCHANGED <<sleep_list, wake_tick, wake, status, ticks>>]_vars
  /\ [][\A t \in Threads : pc[t] = "panic" => pc'[t] = "panic"]_vars

\* C9 witness: the kernel has panicked in timer_sleep(n > 0) called with
\* interrupts disabled.
C9_Witness ==
  \E t \in Threads :
    pc[t] = "panic" /\ panicked /\ arg[t] > 0 /\ intr_level[t] = "OFF"

\* C5. Tick monotonicity: only timer_interrupt changes the tick counter, by
\* exactly +1 a run, so it never decreases; of two successive timer_ticks()
\* results the later is the larger or equal, and timer_elapsed of a value
\* timer_ticks returned is never negative.
C5_TickMonotonic ==
  /\ [][ticks' # ticks => (ticks' = ticks + 1 /\ TimerInterrupt)]_vars
  /\ [](tread[1] <= tread[2] /\ tread[2] <= ticks /\ elapsed >= 0)

\* C5 witness: two timer_ticks() reads with a tick between them, and a
\* positive timer_elapsed.
C5_Witness == tread[1] < tread[2] /\ elapsed > 0

\* C7. Conversion correctness: a real-time sleep of duration d >= 0 with
\* denominator D is in timer_sleep exactly when d * TIMER_FREQ / D, rounded
\* down, is at least 1, with that tick count as argument and a deadline of
\* the tick read plus that count; when the count is 0 it has busy-waited,
\* and the busy-wait step neither blocks the caller nor touches the sleep
\* list.
RtsFloor == DivW(MulW(rts.num.mag, NatW(timer_freq)), rts.denom)

C8_AsStated ==
  cal_pc = "done"
    => /\ ~BitsGt(loops_per_tick, capacity)
       /\ BitsGt({i + 1 : i \in loops_per_tick}, capacity)

\* C10. Wake-up liveness: every thread in the sleep list, with a deadline
\* the explored ticks reach, leaves the list and is unblocked.
C10_WakeupLiveness ==
  \A t \in Threads :
    [](InList(t) /\ wake_tick[t] <= MaxTicks /\ ticks < MaxTicks
         => <>(~InList(t) /\ status[t] # "BLOCKED"))

\* C10 witness: a thread that was inserted with its deadline already
\* passed has been unblocked, while another thread is still asleep.
C10_Witness ==
  \E a, b \in Threads :
    /\ pc[a] = "resume" /\ wake_tick[a] < ticks /\ InSeq(a, unblocked)
    /\ InList(b)

\* C11 as stated. Non-positive real-time durations are no-ops: after
\* timer_msleep, timer_usleep or timer_nsleep with a duration <= 0 the caller
\* is back in its caller, running, the sleep list is untouched, busy_wait
\* ran zero iterations and the kernel has not panicked.
C11_AsStated ==
  (rts.path # "none" /\ ~IsPositive(rts.num))
    => /\ rts.path = "busy" /\ rts.iters = <<>>
       /\ pc[1] = "idle" /\ status[1] = "RUNNING"
       /\ sleep_list = <<>> /\ ~panicked

\* C12. Sorted wake schedule: in every reachable state the sleep list is in
\* ascending wake_tick order, so its front has the smallest wake_tick of the
\* list; every insertion and every handler run leaves it so.
C12_SortedSchedule ==
  /\ \A i, j \in 1 .. Len(sleep_list) :
       i < j => wake_tick[sleep_list[i]] <= wake_tick[sleep_list[j]]
  /\ \A t \in Range(sleep_list) : wake_tick[Head(sleep_list)] <= wake_tick[t]

\* C12 witness: a list of three entries with two different deadlines where
\* an entry was inserted in front of an earlier inserted one.
C12_Witness ==
  /\ Len(sleep_list) = 3
  /\ wake_tick[sleep_list[1]] < wake_tick[sleep_list[3]]
  /\ sleep_list # ins_order

\* C13 as stated. Calibration refinement step: a turn of the refinement
\* loop adds its bit to loops_per_tick only if the estimate with that bit
\* added still fits in one tick, and leaves out a bit whose addition to the
\* estimate does not fit.
C13_AsStated ==
  [][(cal_pc = "refine" /\ cal_pc' = "refine")
       => /\ loops_per_tick' # loops_per_tick
               => ~TooManyLoops(loops_per_tick', capacity)
          /\ loops_per_tick' = loops_per_tick
               => TooManyLoops(loops_per_tick \cup test_bit, capacity)]_vars

\* C14 as stated. Calibration doubling phase: when the doubling loop has
\* ended, its result (kept in high_bit) is a power of two that fits in one
\* tick while its double does not, for every capacity.
C14_AsStated ==
  cal_pc \in {"refine", "done"}
    => /\ Cardinality(high_bit) = 1
       /\ ~TooManyLoops(high_bit, capacity)
       /\ BitsGt({i + 1 : i \in high_bit}, capacity)

\* C15. Calibration overflow is fatal: the doubled value 2^32 is the
\* unsigned 0, which is never reported as too many loops; the doubling that
\* makes loops_per_tick 0 stops timer_calibrate on its assertion, for good,
\* and timer_calibrate never completes with loops_per_tick = 0.
C15_OverflowFatal ==
  /\ [](~TooManyLoops(Shl1({UBits - 1}), capacity))
  /\ [][(cal_pc = "double" /\ loops_per_tick' = {}) => cal_pc' = "panic"]_vars
  /\ [][cal_pc = "panic" => cal_pc' = "panic"]_vars
  /\ [](cal_pc = "done" => loops_per_tick # {})

\* C15 witness: on a CPU that runs 2^31 loops or more in a tick, the doubling
\* has wrapped loops_per_tick to 0 and the assertion has stopped the kernel.
C15_Witness ==
  /\ cal_pc = "panic" /\ loops_per_tick = {}
  /\ ~BitsGt({UBits - 1}, capacity)

\* C16 as stated. Masked access discipline: no function reads the tick
\* counter or changes the sleep list in thread context while the CPU accepts
\* interrupts, so that timer_interrupt cannot run in the middle of the access.
C16_AsStated == unmasked = {}

\* C17. No overflow in the sub-tick fallback: a real_time_sleep call with
\* 0 <= num * TIMER_FREQ < denom takes the busy-wait path (once past the
\* interrupt-level assertion), and no product of
\* loops_per_tick * num / 1000 * TIMER_FREQ / (denom / 1000) leaves the
\* int64_t range: nothing wraps and nothing traps.
C17_NoOverflow ==
  (/\ rts.path \notin {"none", "assert_intr"}
   /\ ~rts.num.neg
   /\ CmpW(MulW(rts.num.mag, NatW(timer_freq)), NatW(rts.denom)) < 0)
    => /\ rts.path = "busy"
       /\ ~rts.ovf
       /\ FitsInt64(rts.loops)

\* C17 witness: the longest sub-tick delay, timer_nsleep (52631578) at
\* 19 Hz, with the largest loops_per_tick, has busy-waited.
C17_Witness ==
  /\ rts.path = "busy" /\ rts.num = Int64(52631578)
  /\ rts.denom = 1000 * 1000 * 1000 /\ timer_freq = 19
  /\ loops_per_tick = UBitSet /\ rts.iters # <<>>

C18_PoppedIsBlocked ==
  /\ [](\A t \in Range(sleep_list) : status[t] = "BLOCKED")
  /\ [](Cardinality(Range(sleep_list)) = Len(sleep_list))
  /\ [][\A t \in Range(unblocked') :
          status[t] = "BLOCKED" /\ InList(t)]_vars

\* C18 witness: the handler has popped one thread, which is ready or runs
\* again, and left two blocked threads in the list.
C18_Witness ==
  /\ Len(unblocked) = 1 /\ status[unblocked[1]] # "BLOCKED"
  /\ Len(sleep_list) = 2
  /\ \A t \in Range(sleep_list) : status[t] = "BLOCKED"

Max(a, b) == IF a >= b THEN a ELSE b

\* C19. A thread inserted into the sleep list when the tick counter is c,
\* with wake deadline d, is unblocked by the handler run that raises the
\* counter to max(d, c + 1): every handler run pops it if and only if it
\* raises the counter to that value, and no run passes that value with the
\* thread still listed; a thread inserted with d <= c goes at tick c + 1.
C19_ExactWakeTick ==
  /\ [][\A t \in Threads :
          (InList(t) /\ ticks' # ticks)
            => (InSeq(t, unblocked')
                  <=> ticks' = Max(wake_tick[t], ins_tick[t] + 1))]_vars
  /\ [](\A t \in Range(sleep_list) :
          ticks < Max(wake_tick[t], ins_tick[t] + 1))

\* C19 witness: a thread inserted with its deadline already reached has been
\* unblocked by the next handler run.
C19_Witness ==
  \E t \in Threads :
    /\ InSeq(t, unblocked) /\ wake_tick[t] < ticks
    /\ pc[t] = "resume" /\ arg[t] = 1
====
